---- MODULE Spec2Model ----
(***************************************************************************)
(* Model of the Ali-Flux MCP server (src/unnamed/part_000, lines 479-971,  *)
(* the variant with save_path / base_dir resolution): the three tools      *)
(* generate_image, check_task_status and download_image, the remote task   *)
(* service they talk to and the file system download_image writes to.      *)
(*                                                                         *)
(* Strings are sequences of one-character strings, so that the path        *)
(* helpers of node's "path" module (POSIX flavour) are computed character  *)
(* by character, the way the library computes them.                        *)
(***************************************************************************)
EXTENDS Integers, Sequences, FiniteSets, TLC

(***************************************************************************)
(* Bounds of the model.                                                    *)
(***************************************************************************)
\* Longest results sequence the remote service returns.
MaxArtifacts == 2

(***************************************************************************)
(* Characters and string literals.                                         *)
(***************************************************************************)
CHAR_FORWARD_SLASH == "/"
CHAR_DOT == "."

S_png == <<".", "p", "n", "g">>
S_t == <<"t">>
S_u == <<"u">>
S_tmp_out_pic_png == <<"/", "t", "m", "p", "/", "o", "u", "t", "/", "p", "i", "c", ".", "p", "n", "g">>
S_tmp_out == <<"/", "t", "m", "p", "/", "o", "u", "t">>
S_tmp_out_slash == <<"/", "t", "m", "p", "/", "o", "u", "t", "/">>
S_tmp_pic_png_slash == <<"/", "t", "m", "p", "/", "p", "i", "c", ".", "p", "n", "g", "/">>
S_d_t_1_png == <<"/", "d", "/", "t", "_", "1", ".", "p", "n", "g">>
S_a_png == <<"/", "a", ".", "p", "n", "g">>
S_tmp_dot_hid == <<"/", "t", "m", "p", "/", ".", "h">>
S_report_png == <<"r", "e", "p", "o", "r", "t", ".", "p", "n", "g">>
S_home_u_work == <<"/", "h", "o", "m", "e", "/", "u", "/", "w", "o", "r", "k">>
S_t_1_png == <<"t", "_", "1", ".", "p", "n", "g">>
S_rel == <<"r", "e", "l">>
S_empty == <<>>

(***************************************************************************)
(* JavaScript string helpers, 0-based as in the source.                    *)
(***************************************************************************)
\* String.prototype.charAt / charCodeAt at a 0-based index.
charAt(s, i) == s[i + 1]

\* String.prototype.slice(a, b) for 0 <= a, b <= length.
slice(s, a, b) == IF b <= a THEN <<>> ELSE SubSeq(s, a + 1, b)

\* String.prototype.includes for a one-character needle.
includes(s, ch) == \E k \in 1..Len(s) : s[k] = ch

Digits == <<"0", "1", "2", "3", "4", "5", "6", "7", "8", "9">>

RECURSIVE NumberToString(_)
\* Template-literal conversion of a non-negative integer to decimal text.
NumberToString(n) == IF n < 10 THEN <<Digits[n + 1]>>
               ELSE NumberToString(n \div 10) \o <<Digits[(n % 10) + 1]>>

(***************************************************************************)
(* node:path, POSIX implementation.                                        *)
(***************************************************************************)
\* path.sep
sep == CHAR_FORWARD_SLASH

\* path.isAbsolute(p)
isAbsolute(p) == Len(p) > 0 /\ charAt(p, 0) = CHAR_FORWARD_SLASH

RECURSIVE SplitAt(_, _, _)
\* The segments of s between separator characters, left to right.
SplitAt(s, k, cur) ==
    IF k > Len(s) THEN <<cur>>
    ELSE IF s[k] = CHAR_FORWARD_SLASH THEN <<cur>> \o SplitAt(s, k + 1, <<>>)
    ELSE SplitAt(s, k + 1, Append(cur, s[k]))

Segments(s) == SplitAt(s, 1, <<>>)

RECURSIVE NormalizeSegments(_, _, _, _)
\* normalizeString: drops empty and "." segments, resolves ".." against the
\* segments kept so far (keeping it when allowAboveRoot and nothing is left).
NormalizeSegments(segs, k, acc, allowAboveRoot) ==
    IF k > Len(segs) THEN acc
    ELSE LET g == segs[k] IN
         IF g = <<>> \/ g = <<".">> THEN NormalizeSegments(segs, k + 1, acc, allowAboveRoot)
         ELSE IF g = <<".", ".">> THEN
              IF Len(acc) > 0 /\ acc[Len(acc)] # <<".", ".">>
              THEN NormalizeSegments(segs, k + 1, SubSeq(acc, 1, Len(acc) - 1), allowAboveRoot)
              ELSE IF allowAboveRoot
                   THEN NormalizeSegments(segs, k + 1, Append(acc, g), allowAboveRoot)
                   ELSE NormalizeSegments(segs, k + 1, acc, allowAboveRoot)
         ELSE NormalizeSegments(segs, k + 1, Append(acc, g), allowAboveRoot)

RECURSIVE JoinSegments(_, _)
JoinSegments(segs, k) ==
    IF k > Len(segs) THEN <<>>
    ELSE IF k = Len(segs) THEN segs[k]
    ELSE segs[k] \o <<CHAR_FORWARD_SLASH>> \o JoinSegments(segs, k + 1)

\* path.normalize(p)
normalize(p) ==
    IF Len(p) = 0 THEN <<".">>
    ELSE LET abs == isAbsolute(p)
             trailingSeparator == charAt(p, Len(p) - 1) = CHAR_FORWARD_SLASH
             body == JoinSegments(NormalizeSegments(Segments(p), 1, <<>>, ~abs), 1)
         IN IF Len(body) = 0
            THEN (IF abs THEN <<"/">>
                  ELSE IF trailingSeparator THEN <<".", "/">> ELSE <<".">>)
            ELSE LET withSep == IF trailingSeparator
                                THEN body \o <<CHAR_FORWARD_SLASH>> ELSE body
                 IN IF abs THEN <<CHAR_FORWARD_SLASH>> \o withSep ELSE withSep

\* path.join(a, b): the non-empty arguments joined by "/", then normalized.
join(a, b) ==
    LET joined == IF Len(a) = 0 THEN b
                  ELSE IF Len(b) = 0 THEN a
                  ELSE a \o <<CHAR_FORWARD_SLASH>> \o b
    IN IF Len(joined) = 0 THEN <<".">> ELSE normalize(joined)

RECURSIVE DirnameScan(_, _, _)
\* The loop of path.dirname: i runs from length-1 down to 1; returns end.
DirnameScan(p, i, matchedSlash) ==
    IF i < 1 THEN -1
    ELSE IF charAt(p, i) = CHAR_FORWARD_SLASH
         THEN (IF ~matchedSlash THEN i ELSE DirnameScan(p, i - 1, matchedSlash))
         ELSE DirnameScan(p, i - 1, FALSE)

\* path.dirname(p)
dirname(p) ==
    IF Len(p) = 0 THEN <<".">>
    ELSE LET hasRoot == charAt(p, 0) = CHAR_FORWARD_SLASH
             end == DirnameScan(p, Len(p) - 1, TRUE)
         IN IF end = -1 THEN (IF hasRoot THEN <<"/">> ELSE <<".">>)
            ELSE IF hasRoot /\ end = 1 THEN <<"/", "/">>
            ELSE slice(p, 0, end)

RECURSIVE ParseScan(_, _, _, _)
\* The loop of path.parse: i runs from length-1 down to start, tracking
\* startDot, startPart, end, matchedSlash and preDotState.
ParseScan(p, i, start, st) ==
    IF i < start THEN st
    ELSE IF charAt(p, i) = CHAR_FORWARD_SLASH
         THEN (IF ~st.matchedSlash
               THEN [st EXCEPT !.startPart = i + 1]
               ELSE ParseScan(p, i - 1, start, st))
         ELSE LET s1 == IF st.end = -1
                        THEN [st EXCEPT !.matchedSlash = FALSE, !.end = i + 1]
                        ELSE st
                  s2 == IF charAt(p, i) = CHAR_DOT
                        THEN (IF s1.startDot = -1 THEN [s1 EXCEPT !.startDot = i]
                              ELSE IF s1.preDotState # 1 THEN [s1 EXCEPT !.preDotState = 1]
                              ELSE s1)
                        ELSE IF s1.startDot # -1 THEN [s1 EXCEPT !.preDotState = -1]
                        ELSE s1
              IN ParseScan(p, i - 1, start, s2)

\* path.parse(p): the fields root, dir, base, ext, name.
parse(p) ==
    IF Len(p) = 0
    THEN [root |-> <<>>, dir |-> <<>>, base |-> <<>>, ext |-> <<>>, name |-> <<>>]
    ELSE LET abs == charAt(p, 0) = CHAR_FORWARD_SLASH
             start == IF abs THEN 1 ELSE 0
             st == ParseScan(p, Len(p) - 1, start,
                             [startDot |-> -1, startPart |-> 0, end |-> -1,
                              matchedSlash |-> TRUE, preDotState |-> 0])
             from == IF st.startPart = 0 /\ abs THEN 1 ELSE st.startPart
             noExt == \/ st.startDot = -1
                      \/ st.preDotState = 0
                      \/ (st.preDotState = 1 /\ st.startDot = st.end - 1
                          /\ st.startDot = st.startPart + 1)
             dir == IF st.startPart > 0 THEN slice(p, 0, st.startPart - 1)
                    ELSE IF abs THEN <<"/">> ELSE <<>>
         IN IF st.end = -1
            THEN [root |-> IF abs THEN <<"/">> ELSE <<>>, dir |-> dir,
                  base |-> <<>>, ext |-> <<>>, name |-> <<>>]
            ELSE IF noExt
            THEN [root |-> IF abs THEN <<"/">> ELSE <<>>, dir |-> dir,
                  base |-> slice(p, from, st.end), ext |-> <<>>,
                  name |-> slice(p, from, st.end)]
            ELSE [root |-> IF abs THEN <<"/">> ELSE <<>>, dir |-> dir,
                  base |-> slice(p, from, st.end),
                  ext |-> slice(p, st.startDot, st.end),
                  name |-> slice(p, from, st.startDot)]

(***************************************************************************)
(* Process-wide configuration, read once at start-up.                      *)
(***************************************************************************)
\* Default save directory (SAVE_DIR); it exists once the module has loaded.
SAVE_DIR == <<"/", "i", "m", "g">>
\* Default base directory (WORK_DIR).
WORK_DIR == <<"/", "w">>

(***************************************************************************)
(* JavaScript values of the tool arguments.                                *)
(***************************************************************************)
Undefined == [t |-> "undefined", v |-> <<>>]
Str(s) == [t |-> "string", v |-> s]
\* A value whose typeof is neither "string" nor "undefined".
NotAString == [t |-> "number", v |-> <<>>]
\* Truthiness of an optional string: defined and not the empty string.
Truthy(a) == a.t = "string" /\ Len(a.v) > 0

\* Mutant of isValidTaskIdArgs: save_path is only tested to be a string.
isValidTaskIdArgsAnyString(a) ==
    /\ a.task_id.t = "string"
    /\ (a.save_path.t = "undefined" \/ a.save_path.t = "string")
    /\ (a.base_dir.t = "undefined" \/ a.base_dir.t = "string")

\* isValidTaskIdArgs: task_id is a string; save_path is absent, or a string
\* that is absolute or empty; base_dir is absent or a string.
isValidTaskIdArgs(a) ==
    /\ a.task_id.t = "string"
    /\ \/ a.save_path.t = "undefined"
       \/ /\ a.save_path.t = "string"
          /\ (isAbsolute(a.save_path.v) \/ a.save_path.v = <<>>)
    /\ (a.base_dir.t = "undefined" \/ a.base_dir.t = "string")

(***************************************************************************)
(* Destination resolution of downloadImage.                                *)
(***************************************************************************)
\* const baseDir = typedArgs.base_dir || WORK_DIR
BaseDir(a) == IF Truthy(a.base_dir) THEN a.base_dir.v ELSE WORK_DIR

\* hasExtension = parsedPath.ext && parsedPath.base !== parsedPath.dir
hasExtension(parsedPath) == Len(parsedPath.ext) > 0 /\ parsedPath.base # parsedPath.dir

\* The if/else on customSavePath: ok is FALSE on the "Invalid save_path"
\* return; customFilename <<>> stands for null.
ResolveDestination(customSavePath) ==
    IF Truthy(customSavePath)
    THEN IF ~isAbsolute(customSavePath.v)
         THEN [ok |-> FALSE, targetDir |-> <<>>, customFilename |-> <<>>]
         ELSE LET parsedPath == parse(customSavePath.v) IN
              IF hasExtension(parsedPath)
              THEN [ok |-> TRUE,
                    targetDir |-> IF /\ ~includes(customSavePath.v, sep)
                                     /\ ~includes(customSavePath.v, "/")
                                  THEN <<>>
                                  ELSE dirname(customSavePath.v),
                    customFilename |-> parsedPath.base]
              ELSE [ok |-> TRUE, targetDir |-> customSavePath.v, customFilename |-> <<>>]
    ELSE [ok |-> TRUE, targetDir |-> SAVE_DIR, customFilename |-> <<>>]

\* Mutant of AbsoluteTargetDir: the directory is always joined onto baseDir.
AbsoluteTargetDirAlwaysJoined(targetDir, baseDir) == join(baseDir, targetDir)

\* absoluteTargetDir: targetDir itself when absolute, else joined onto baseDir.
AbsoluteTargetDir(targetDir, baseDir) ==
    IF isAbsolute(targetDir) THEN targetDir ELSE join(baseDir, targetDir)

\* Mutant of Filename: the override is applied to every artifact.
FilenameOverrideEvery(task_id, i, customFilename) ==
    IF Len(customFilename) > 0
    THEN customFilename
    ELSE task_id \o <<"_">> \o NumberToString(i) \o S_png

\* Mutant of Filename: the default name does not carry the task_id.
FilenameWithoutTaskId(task_id, i, customFilename) ==
    IF i = 0 /\ Len(customFilename) > 0
    THEN customFilename
    ELSE <<"_">> \o NumberToString(i) \o S_png

\* filename = i === 0 && customFilename ? customFilename : `${task_id}_${i}.png`
Filename(task_id, i, customFilename) ==
    IF i = 0 /\ Len(customFilename) > 0
    THEN customFilename
    ELSE task_id \o <<"_">> \o NumberToString(i) \o S_png

\* savePath = path.join(targetDir, filename)
SavePath(targetDir, filename) == join(targetDir, filename)

(***************************************************************************)
(* The file system: regular files with their content, and directories.     *)
(***************************************************************************)
\* A path as the file system resolves it: normalized, no trailing separator.
Canon(p) ==
    LET q == normalize(p) IN
    IF Len(q) > 1 /\ q[Len(q)] = CHAR_FORWARD_SLASH THEN SubSeq(q, 1, Len(q) - 1) ELSE q

RECURSIVE AncestorsOf(_)
\* A canonical absolute path together with all its ancestors up to the root.
AncestorsOf(p) ==
    IF Len(p) <= 1 \/ ~isAbsolute(p) THEN {p}
    ELSE {p} \cup AncestorsOf(Canon(dirname(p)))

\* fs.existsSync(p)
existsSync(files, directories, p) == Canon(p) \in directories \/ Canon(p) \in DOMAIN files

\* fs.mkdirSync(p, {recursive: true}) cannot succeed when a component of p is
\* a regular file.
MkdirMustFail(files, p) == \E q \in AncestorsOf(Canon(p)) : q \in DOMAIN files

\* Mutant of writeFile: an existing file is kept and the content goes to a
\* new name beside it.
writeFileNoClobber(fs, p, data) ==
    IF Canon(p) \in DOMAIN fs
    THEN ((Canon(p) \o <<".", "1">>) :> data) @@ fs
    ELSE (Canon(p) :> data) @@ fs

\* fs.promises.writeFile(p, data): creates the file or replaces its content.
writeFile(fs, p, data) == (Canon(p) :> data) @@ fs

\* fs.promises.writeFile(p) cannot succeed when p is a directory or the
\* parent of p is not a directory.
WriteMustFail(directories, p) ==
    Canon(p) \in directories \/ Canon(dirname(Canon(p))) \notin directories

(***************************************************************************)
(* The remote task service.                                                *)
(***************************************************************************)
U1 == <<"u", "1">>
U2 == <<"u", "2">>
Urls == {U1, U2}
\* Content served for an artifact URL; 0 is the content of an empty file.
Bytes == {1, 2}

NoResults == [def |-> FALSE, urls |-> <<>>]
UrlSeqs == UNION {[1..n -> Urls] : n \in 0..MaxArtifacts}
\* The body of GET /tasks/{task_id}: output.task_status and output.results.
Payloads ==
    {[task_status |-> s, results |-> NoResults] : s \in {"PENDING", "RUNNING", "FAILED"}}
    \cup {[task_status |-> "SUCCEEDED", results |-> r] :
            r \in {NoResults} \cup {[def |-> TRUE, urls |-> u] : u \in UrlSeqs}}
NoPayload == [task_status |-> "", results |-> NoResults]

(***************************************************************************)
(* Inputs of download_image.                                               *)
(***************************************************************************)
TaskIdArgs == {Str(S_t), Str(S_u), NotAString}
SavePathArgs == {Undefined, Str(S_empty), Str(S_tmp_out_pic_png), Str(S_tmp_out_slash),
                 Str(S_tmp_out), Str(S_tmp_pic_png_slash), Str(S_d_t_1_png),
                 Str(S_a_png), Str(S_tmp_dot_hid), Str(S_report_png)}
BaseDirArgs == {Str(S_home_u_work), NotAString}
\* The values of base_dir that pass validation: absent, empty, relative and
\* absolute.
AnyBaseDir == {Undefined, Str(S_empty), Str(S_rel), Str(S_home_u_work)}
\* One task_id with every save_path, every task_id with the save_path values
\* whose handling depends on it, and the base_dir values with the save_path
\* values whose handling could depend on them.
DownloadArgs ==
    [task_id : {Str(S_t)}, save_path : SavePathArgs, base_dir : {Undefined}]
    \cup [task_id : TaskIdArgs,
          save_path : {Undefined, Str(S_d_t_1_png)},
          base_dir : {Undefined}]
    \cup [task_id : {Str(S_t)},
          save_path : {Undefined, Str(S_report_png), Str(S_tmp_out_pic_png)},
          base_dir : BaseDirArgs]
NoArgs == [task_id |-> Undefined, save_path |-> Undefined, base_dir |-> Undefined]

(***************************************************************************)
(* State.                                                                  *)
(***************************************************************************)
\* The tool calls of a behaviour: a call and the call that follows it.
CallIds == {1, 2}

VARIABLES
    pc,       \* pc[c]: where call c is suspended, or how it ended
    tool,     \* tool[c]: the tool call c invoked
    args,     \* args[c]: the arguments of call c
    frame,    \* frame[c]: the local variables of downloadImage in call c
    result,   \* result[c]: what call c returned or raised
    trace,    \* trace[c]: the I/O operations call c performed, in order
    files,    \* the regular files: canonical path -> content
    dirs,     \* the directories that exist (canonical paths)
    remote,   \* the remote service's record of the task
    posted    \* posted[c]: the submission requests call c sent, in order

vars == <<pc, tool, args, frame, result, trace, files, dirs, remote, posted>>

\* The locals of downloadImage (statusData, imageUrls, targetDir,
\* customFilename, i, savePath, imageResponse.data, downloadResults) and three
\* history fields: before, the file paths present when the call was made,
\* fetched, the content fetched for each recorded download, and overlapped,
\* the calls that were suspended in their I/O when the call was made.
NoFrame == [statusData |-> NoPayload, imageUrls |-> <<>>, targetDir |-> <<>>,
            customFilename |-> <<>>, i |-> 0, savePath |-> <<>>, data |-> 0,
            downloadResults |-> <<>>, before |-> {}, fetched |-> <<>>,
            overlapped |-> {}]
NoResult == [how |-> "none", kind |-> "", isError |-> FALSE,
             payload |-> NoPayload, downloads |-> <<>>]
\* A tool result returned to the dispatcher.
Returned(kind, isError, payload, downloads) ==
    [how |-> "returned", kind |-> kind, isError |-> isError,
     payload |-> payload, downloads |-> downloads]
\* An exception propagating out of the tool function.
Raised(kind) ==
    [how |-> "raised", kind |-> kind, isError |-> FALSE,
     payload |-> NoPayload, downloads |-> <<>>]
\* One I/O operation of a call; ok turns FALSE when the operation fails.
Io(op, arg) == [op |-> op, arg |-> arg, ok |-> TRUE]
\* The trace tr with its last operation marked as failed.
FailLast(tr) == [tr EXCEPT ![Len(tr)].ok = FALSE]

Ended(c) == pc[c] \in {"returned", "thrown"}
\* Call c waits for the answer of a request or for the end of a write.
Suspended(c) == pc[c] \in {"await_status", "await_fetch", "await_write", "await_post"}

Init ==
    /\ pc = [c \in CallIds |-> "idle"]
    /\ tool = [c \in CallIds |-> "none"]
    /\ args = [c \in CallIds |-> NoArgs]
    /\ frame = [c \in CallIds |-> NoFrame]
    /\ result = [c \in CallIds |-> NoResult]
    /\ trace = [c \in CallIds |-> <<>>]
    /\ files = <<>>
    /\ dirs = AncestorsOf(SAVE_DIR) \cup AncestorsOf(WORK_DIR)
    /\ remote \in Payloads
    /\ posted = [c \in CallIds |-> <<>>]

(***************************************************************************)
(* download_image.                                                         *)
(***************************************************************************)
\* Call c ends with result r.
Finish(c, r) ==
    /\ pc' = [pc EXCEPT ![c] = IF r.how = "raised" THEN "thrown" ELSE "returned"]
    /\ result' = [result EXCEPT ![c] = r]

\* Mutant of NotSucceeded: only the statuses of a task still running stop the
\* call, a failed task is taken for a finished one.
NotSucceededOnlyWhileRunning(statusData) ==
    statusData.task_status \in {"PENDING", "RUNNING"}

\* statusData.output.task_status !== "SUCCEEDED"
NotSucceeded(statusData) == statusData.task_status # "SUCCEEDED"

\* The catch clause of downloadImage on an axios error.
ApiError == Returned("api_error", TRUE, NoPayload, <<>>)
\* The "Task not completed or failed" return, carrying the status body.
Incomplete(statusData) == Returned("incomplete", TRUE, statusData, <<>>)
\* Mutant of NoArtifacts: a task without artifacts is reported as a completed
\* download of nothing.
NoArtifactsAsCompleted == Returned("success", FALSE, NoPayload, <<>>)

\* The "No image URL found" return.
NoArtifacts == Returned("no_artifacts", TRUE, NoPayload, <<>>)
\* The "Invalid save_path" return.
InvalidSavePath == Returned("invalid_save_path", TRUE, NoPayload, <<>>)
\* Mutant of DirectoryFailed: no catch around the directory block, the error
\* of mkdirSync leaves the function.
DirectoryErrorUncaught == Raised("Error")

\* The catch clause around the directory block: "Failed to create directory".
DirectoryFailed == Returned("dir_failed", TRUE, NoPayload, <<>>)
\* The final return: "Image download completed" with the downloads list.
Completed(downloadResults) == Returned("success", FALSE, NoPayload, downloadResults)

\* Mutant of Url: the results are walked from the last to the first.
UrlFromTheEnd(imageUrls, i) == imageUrls[Len(imageUrls) - i]

\* const url = imageUrls[i], with i counted from 0.
Url(imageUrls, i) == imageUrls[i + 1]

\* Top of the for loop for index fr.i: the filename, the save path, and the
\* request for the artifact; the call then waits for the response.
StartArtifact(c, fr, tr) ==
    LET url == Url(fr.imageUrls, fr.i)
        filename == Filename(args[c].task_id.v, fr.i, fr.customFilename)
        savePath == SavePath(fr.targetDir, filename)
    IN /\ frame' = [frame EXCEPT ![c] = [fr EXCEPT !.savePath = savePath]]
       /\ trace' = [trace EXCEPT ![c] = Append(tr, Io("artifact_get", url))]
       /\ pc' = [pc EXCEPT ![c] = "await_fetch"]
       /\ UNCHANGED result

\* Mutant of StatusRequest: the status is asked for twice in a row.
StatusRequestTwice(task_id) == <<Io("status_get", task_id), Io("status_get", task_id)>>

\* await apiClient.get(`/tasks/${args.task_id}`): the requests it sends.
StatusRequest(task_id) == <<Io("status_get", task_id)>>

\* downloadImage up to its first await: validation, then the status request.
DownloadImage(c, a) ==
    /\ pc[c] = "idle"
    /\ tool' = [tool EXCEPT ![c] = "download_image"]
    /\ args' = [args EXCEPT ![c] = a]
    /\ IF ~isValidTaskIdArgs(a)
       THEN /\ Finish(c, Raised("McpError.InvalidParams"))
            /\ UNCHANGED trace
       ELSE /\ pc' = [pc EXCEPT ![c] = "await_status"]
            /\ trace' = [trace EXCEPT ![c] = @ \o StatusRequest(a.task_id.v)]
            /\ UNCHANGED result
    /\ frame' = [frame EXCEPT ![c].before = DOMAIN files,
                              ![c].overlapped = {d \in CallIds \ {c} : Suspended(d)}]
    /\ UNCHANGED <<files, dirs, remote, posted>>

\* The status request fails: the outer catch returns the API error.
StatusFailed(c) ==
    /\ pc[c] = "await_status"
    /\ Finish(c, ApiError)
    /\ trace' = [trace EXCEPT ![c] = FailLast(@)]
    /\ UNCHANGED <<tool, args, frame, files, dirs, remote, posted>>

\* The status request answers: everything from the status check to the
\* request for artifact 0 runs without suspension.
StatusFetched(c) ==
    /\ pc[c] = "await_status"
    /\ UNCHANGED <<tool, args, remote, files, posted>>
    /\ LET statusData == remote
           a == args[c]
           seen == [frame EXCEPT ![c].statusData = statusData]
       IN IF NotSucceeded(statusData)
          THEN /\ Finish(c, Incomplete(statusData))
               /\ frame' = seen
               /\ UNCHANGED <<trace, dirs>>
          ELSE IF ~statusData.results.def
          THEN \* results.map on undefined: a TypeError, rethrown by the catch
               /\ Finish(c, Raised("TypeError"))
               /\ frame' = seen
               /\ UNCHANGED <<trace, dirs>>
          ELSE IF Len(statusData.results.urls) = 0
          THEN /\ Finish(c, NoArtifacts)
               /\ frame' = seen
               /\ UNCHANGED <<trace, dirs>>
          ELSE LET dest == ResolveDestination(a.save_path) IN
               IF ~dest.ok
               THEN /\ Finish(c, InvalidSavePath)
                    /\ frame' = seen
                    /\ UNCHANGED <<trace, dirs>>
               ELSE LET absoluteTargetDir == AbsoluteTargetDir(dest.targetDir, BaseDir(a))
                        fr == [seen[c] EXCEPT !.imageUrls = statusData.results.urls,
                                              !.targetDir = absoluteTargetDir,
                                              !.customFilename = dest.customFilename]
                        checked == Append(trace[c], Io("exists", absoluteTargetDir))
                        made == Append(checked, Io("mkdir", absoluteTargetDir))
                    IN IF existsSync(files, dirs, absoluteTargetDir)
                       THEN /\ StartArtifact(c, fr, checked)
                            /\ UNCHANGED dirs
                       ELSE \/ \* mkdirSync throws: the inner catch returns
                               /\ Finish(c, DirectoryFailed)
                               /\ trace' = [trace EXCEPT ![c] = FailLast(made)]
                               /\ frame' = [frame EXCEPT ![c] = fr]
                               /\ UNCHANGED dirs
                            \/ /\ ~MkdirMustFail(files, absoluteTargetDir)
                               /\ dirs' = dirs \cup AncestorsOf(Canon(absoluteTargetDir))
                               /\ StartArtifact(c, fr, made)

\* The artifact request fails: the outer catch returns the API error.
ArtifactFailed(c) ==
    /\ pc[c] = "await_fetch"
    /\ Finish(c, ApiError)
    /\ trace' = [trace EXCEPT ![c] = FailLast(@)]
    /\ UNCHANGED <<tool, args, frame, files, dirs, remote, posted>>

\* The artifact request answers with content b: the write is started.
ArtifactFetched(c, b) ==
    /\ pc[c] = "await_fetch"
    /\ frame' = [frame EXCEPT ![c].data = b]
    /\ trace' = [trace EXCEPT ![c] = Append(@, Io("write", frame[c].savePath))]
    /\ pc' = [pc EXCEPT ![c] = "await_write"]
    /\ UNCHANGED <<tool, args, result, files, dirs, remote, posted>>

\* writeFile rejects: not an axios error, so the catch rethrows it. The file
\* is untouched, or left truncated when the failure came after it was opened.
WriteFailed(c, truncated) ==
    /\ pc[c] = "await_write"
    /\ Finish(c, Raised("Error"))
    /\ trace' = [trace EXCEPT ![c] = FailLast(@)]
    /\ IF truncated /\ ~WriteMustFail(dirs, frame[c].savePath)
       THEN files' = writeFile(files, frame[c].savePath, 0)
       ELSE UNCHANGED files
    /\ UNCHANGED <<tool, args, frame, dirs, remote, posted>>

\* writeFile resolves: the file holds the fetched content, the download is
\* recorded, and the loop goes on to the next artifact or the call returns.
WriteDone(c) ==
    /\ pc[c] = "await_write"
    /\ ~WriteMustFail(dirs, frame[c].savePath)
    /\ files' = writeFile(files, frame[c].savePath, frame[c].data)
    /\ LET f == frame[c]
           entry == [url |-> Url(f.imageUrls, f.i), saved_to |-> f.savePath]
           fr == [f EXCEPT !.downloadResults = Append(@, entry),
                           !.fetched = Append(@, f.data),
                           !.i = @ + 1]
       IN IF fr.i < Len(fr.imageUrls)
          THEN StartArtifact(c, fr, trace[c])
          ELSE /\ Finish(c, Completed(fr.downloadResults))
               /\ frame' = [frame EXCEPT ![c] = fr]
               /\ UNCHANGED trace
    /\ UNCHANGED <<tool, args, dirs, remote, posted>>

(***************************************************************************)
(* generate_image.                                                         *)
(***************************************************************************)
S_1024x1024 == <<"1", "0", "2", "4", "*", "1", "0", "2", "4">>
S_720x1280 == <<"7", "2", "0", "*", "1", "2", "8", "0">>
S_cat == <<"c", "a", "t">>

\* JavaScript values of the numeric arguments: undefined, a number (NaN
\* included, whose typeof is "number" too), or a value of another type.
NoNumber == [t |-> "undefined", n |-> 0, nan |-> FALSE]
Num(k) == [t |-> "number", n |-> k, nan |-> FALSE]
NaN == [t |-> "number", n |-> 0, nan |-> TRUE]
NotANumber == [t |-> "string", n |-> 0, nan |-> FALSE]
\* Truthiness of an optional number: defined, not 0 and not NaN.
TruthyNumber(x) == x.t = "number" /\ ~x.nan /\ x.n # 0

\* isValidGenerateImageArgs: prompt is a string; size is absent or a string;
\* seed and steps are absent or numbers.
isValidGenerateImageArgs(g) ==
    /\ g.prompt.t = "string"
    /\ (g.size.t = "undefined" \/ g.size.t = "string")
    /\ (g.seed.t = "undefined" \/ g.seed.t = "number")
    /\ (g.steps.t = "undefined" \/ g.steps.t = "number")

\* The values of Math.floor(Math.random() * 1000).
RandomRange == 1000
RandomSeeds == 0..(RandomRange - 1)
\* The default of steps.
DefaultSteps == 4

\* size: args.size || "1024*1024"
SizeParameter(g) == IF Truthy(g.size) THEN g.size.v ELSE S_1024x1024
\* seed: args.seed !== undefined ? args.seed : Math.floor(Math.random() * 1000)
SeedParameter(g, random) == IF g.seed.t # "undefined" THEN g.seed ELSE Num(random)
\* Mutant of StepsParameter: the default is forgotten.
StepsParameterAsGiven(g) == g.steps

\* steps: args.steps || 4
StepsParameter(g) == IF TruthyNumber(g.steps) THEN g.steps ELSE Num(DefaultSteps)

\* The parameters object of the submission request.
Parameters(g, random) ==
    [size |-> SizeParameter(g), seed |-> SeedParameter(g, random),
     steps |-> StepsParameter(g)]

GenerateArgs ==
    [prompt : {Str(S_cat), Undefined},
     size : {Undefined, Str(S_empty), Str(S_720x1280), NotAString},
     seed : {NoNumber, Num(0), Num(7), NaN, NotANumber},
     steps : {NoNumber, Num(0), Num(8), NaN, NotANumber}]

\* generateImage up to its await: validation, then the submission request.
GenerateImage(c, g, random) ==
    /\ pc[c] = "idle"
    /\ tool' = [tool EXCEPT ![c] = "generate_image"]
    /\ args' = [args EXCEPT ![c] = g]
    /\ IF ~isValidGenerateImageArgs(g)
       THEN /\ Finish(c, Raised("McpError.InvalidParams"))
            /\ UNCHANGED posted
       ELSE /\ pc' = [pc EXCEPT ![c] = "await_post"]
            /\ posted' = [posted EXCEPT ![c] = Append(@, Parameters(g, random))]
            /\ UNCHANGED result
    /\ UNCHANGED <<frame, trace, files, dirs, remote>>

\* The submission fails: the catch returns the API error.
SubmitFailed(c) ==
    /\ pc[c] = "await_post"
    /\ Finish(c, ApiError)
    /\ UNCHANGED <<tool, args, frame, trace, files, dirs, remote, posted>>

\* The submission answers: the response body is returned as it is.
Submitted(c) ==
    /\ pc[c] = "await_post"
    /\ Finish(c, Returned("raw", FALSE, remote, <<>>))
    /\ UNCHANGED <<tool, args, frame, trace, files, dirs, remote, posted>>

(***************************************************************************)
(* The environment: the remote task advances; the client calls the tool    *)
(* and, once a call has ended, repeats it with the same arguments.         *)
(***************************************************************************)
\* A task that has not reached a final status moves on to another status.
RemoteProgress ==
    /\ remote.task_status \in {"PENDING", "RUNNING"}
    /\ \E p \in Payloads : p # remote /\ remote' = p
    /\ UNCHANGED <<pc, tool, args, frame, result, trace, files, dirs, posted>>

\* Call 1 is free in its arguments; call c > 1 repeats call c - 1.
FirstOrRepeat(c, a) ==
    \/ c = 1
    \/ /\ c > 1
       /\ Ended(c - 1)
       /\ tool[c - 1] = "download_image"
       /\ a = args[c - 1]

CallDownload(c) ==
    /\ pc[c] = "idle"
    /\ \E a \in DownloadArgs : FirstOrRepeat(c, a) /\ DownloadImage(c, a)

Next ==
    \/ RemoteProgress
    \/ \E c \in CallIds :
        \/ CallDownload(c)
        \/ StatusFailed(c)
        \/ StatusFetched(c)
        \/ ArtifactFailed(c)
        \/ \E b \in Bytes : ArtifactFetched(c, b)
        \/ \E truncated \in BOOLEAN : WriteFailed(c, truncated)
        \/ WriteDone(c)

Spec == Init /\ [][Next]_vars

\* Math.random is drawn only when the call reaches the seed default.
RandomDraws(g) ==
    IF isValidGenerateImageArgs(g) /\ g.seed.t = "undefined" THEN RandomSeeds ELSE {0}

\* The client submits one generation job.
CallGenerate(c) ==
    /\ c = 1
    /\ pc[c] = "idle"
    /\ \E g \in GenerateArgs : \E random \in RandomDraws(g) : GenerateImage(c, g, random)

NextGen ==
    \E c \in CallIds :
        \/ CallGenerate(c)
        \/ SubmitFailed(c)
        \/ Submitted(c)

\* The submission endpoint answers with the record of a task just queued.
InitGen == Init /\ remote = [task_status |-> "PENDING", results |-> NoResults]

SpecGen == InitGen /\ [][NextGen]_vars

\* Two clients' requests: the handler of a request runs as soon as it
\* arrives, while the earlier call is suspended in its I/O.
ConcurrentArgs ==
    [task_id : {Str(S_t), Str(S_u)},
     save_path : {Undefined, Str(S_tmp_out_pic_png)},
     base_dir : {Undefined}]

\* Call 1 is the first to arrive; call 2 arrives at any moment after it.
CallConcurrently(c) ==
    /\ pc[c] = "idle"
    /\ c > 1 => pc[c - 1] # "idle"
    /\ \E a \in ConcurrentArgs : DownloadImage(c, a)

NextConcurrent ==
    \E c \in CallIds :
        \/ CallConcurrently(c)
        \/ StatusFailed(c)
        \/ StatusFetched(c)
        \/ ArtifactFailed(c)
        \/ \E b \in Bytes : ArtifactFetched(c, b)
        \/ \E truncated \in BOOLEAN : WriteFailed(c, truncated)
        \/ WriteDone(c)

\* The tasks asked for have succeeded, with MaxArtifacts artifacts.
InitConcurrent ==
    /\ Init
    /\ remote.task_status = "SUCCEEDED"
    /\ remote.results.def
    /\ remote.results.urls = [k \in 1..MaxArtifacts |-> IF k = 1 THEN U1 ELSE U2]

SpecConcurrent == InitConcurrent /\ [][NextConcurrent]_vars

\* A client that makes a call with a save_path and then the same call again
\* with another base_dir.
SavePathCalls ==
    [task_id : {Str(S_t)},
     save_path : {Str(S_tmp_out_pic_png), Str(S_tmp_out)},
     base_dir : {Undefined, Str(S_home_u_work)}]

\* Call 1 is one of SavePathCalls; call c > 1 is call c - 1 with any base_dir.
CallWithBaseDir(c) ==
    /\ pc[c] = "idle"
    /\ \/ c = 1 /\ \E a \in SavePathCalls : DownloadImage(c, a)
       \/ /\ c > 1
          /\ Ended(c - 1)
          /\ \E b \in AnyBaseDir : DownloadImage(c, [args[c - 1] EXCEPT !.base_dir = b])

NextBaseDir ==
    \E c \in CallIds :
        \/ CallWithBaseDir(c)
        \/ StatusFailed(c)
        \/ StatusFetched(c)
        \/ ArtifactFailed(c)
        \/ \E b \in Bytes : ArtifactFetched(c, b)
        \/ \E truncated \in BOOLEAN : WriteFailed(c, truncated)
        \/ WriteDone(c)

SpecBaseDir == InitConcurrent /\ [][NextBaseDir]_vars
(***************************************************************************)
(* Properties.                                                             *)
(***************************************************************************)
\* The I/O operations of call c, as the set of their kinds.
OpsOf(c) == {trace[c][k].op : k \in DOMAIN trace[c]}
\* What a call does beyond asking for the task's status.
FsAndArtifactOps == {"exists", "mkdir", "artifact_get", "write"}
\* Call c is a download_image call whose status request has answered.
StatusSeen(c) == tool[c] = "download_image" /\ frame[c].statusData # NoPayload

\* No call has been made after call c.
NoLaterCall(c) == \A d \in CallIds : d > c => pc[d] = "idle"

\* C1: a download_image call whose status request answers with a task_status
\* other than SUCCEEDED has ended with an error-flagged result that carries
\* the whole status body, and has performed no directory check, no directory
\* creation, no artifact request and no file write.
C1_IncompleteIsReportedWithoutFilesystem ==
    \A c \in CallIds :
        (StatusSeen(c) /\ frame[c].statusData.task_status # "SUCCEEDED")
        => /\ pc[c] = "returned"
           /\ result[c].isError
           /\ result[c].payload = frame[c].statusData
           /\ OpsOf(c) \cap FsAndArtifactOps = {}
           /\ (NoLaterCall(c) => DOMAIN files = frame[c].before)

C1_Witness ==
    \E c \in CallIds :
        /\ StatusSeen(c)
        /\ frame[c].statusData.task_status = "RUNNING"
        /\ pc[c] = "returned"
        /\ result[c].kind = "incomplete"

\* C2: a download_image call whose status request answers SUCCEEDED with a
\* results sequence that is empty or absent has ended with the error-flagged
\* "no artifacts" result, without file system access or artifact request.
C2_EmptyOrAbsentResultsIsNoArtifacts ==
    \A c \in CallIds :
        (/\ StatusSeen(c)
         /\ frame[c].statusData.task_status = "SUCCEEDED"
         /\ (~frame[c].statusData.results.def \/ frame[c].statusData.results.urls = <<>>))
        => /\ pc[c] = "returned"
           /\ result[c].kind = "no_artifacts"
           /\ result[c].isError
           /\ OpsOf(c) \cap FsAndArtifactOps = {}

\* The directory creation of call c was attempted and failed.
MkdirFailedIn(c) == \E k \in DOMAIN trace[c] : trace[c][k].op = "mkdir" /\ ~trace[c][k].ok

\* C3: when creating the resolved target directory fails, the call has ended
\* with the error-flagged "directory creation failed" result, and it has
\* requested no artifact and written no file.
C3_DirectoryFailureAbortsBeforeFetch ==
    \A c \in CallIds :
        MkdirFailedIn(c)
        => /\ pc[c] = "returned"
           /\ result[c].kind = "dir_failed"
           /\ result[c].isError
           /\ OpsOf(c) \cap {"artifact_get", "write"} = {}
           /\ (NoLaterCall(c) => DOMAIN files = frame[c].before)

C3_Witness ==
    \E c \in CallIds :
        /\ MkdirFailedIn(c)
        /\ result[c].kind = "dir_failed"
        /\ Len(frame[c].imageUrls) > 0

\* The file names call c assigns to its artifacts, by artifact index.
AssignedName(c, i) == Filename(args[c].task_id.v, i, frame[c].customFilename)
\* Call c is a download_image call that has resolved its destination.
Resolved(c) == tool[c] = "download_image" /\ Len(frame[c].imageUrls) > 0
\* Call c has returned the success result.
Succeeded(c) ==
    tool[c] = "download_image" /\ pc[c] = "returned" /\ result[c].kind = "success"
\* The canonical paths call c reports in its downloads.
ReportedPaths(c) ==
    {Canon(result[c].downloads[k].saved_to) : k \in DOMAIN result[c].downloads}

\* C4: the file names assigned to the n artifacts of a batch are pairwise
\* distinct.
C4_FilenamesPairwiseDistinct ==
    \A c \in CallIds :
        Resolved(c)
        => \A i, j \in 0..(Len(frame[c].imageUrls) - 1) :
               i # j => AssignedName(c, i) # AssignedName(c, j)

\* C5: after a call that ends in success for n artifacts, n files exist at
\* the reported saved_to paths, and each holds the content fetched from the
\* URL of its downloads entry.
C5_FilesHoldFetchedContent ==
    \A c \in CallIds :
        (Succeeded(c) /\ NoLaterCall(c))
        => LET d == result[c].downloads IN
           /\ Len(d) = Len(frame[c].imageUrls)
           /\ Cardinality(ReportedPaths(c)) = Len(d)
           /\ \A k \in DOMAIN d :
                /\ d[k].url = frame[c].imageUrls[k]
                /\ Canon(d[k].saved_to) \in DOMAIN files
                /\ files[Canon(d[k].saved_to)] = frame[c].fetched[k]

\* Call c repeats call c - 1 (same task_id, save_path and base_dir), both
\* have ended in success and the remote results were the same for both.
SuccessfulRepeat(c) ==
    /\ c - 1 \in CallIds
    /\ Succeeded(c - 1)
    /\ Succeeded(c)
    /\ args[c] = args[c - 1]
    /\ frame[c].imageUrls = frame[c - 1].imageUrls

RECURSIVE TrimSlashes(_)
\* p without its trailing separators (the root stays).
TrimSlashes(p) ==
    IF Len(p) > 1 /\ p[Len(p)] = "/" THEN TrimSlashes(SubSeq(p, 1, Len(p) - 1)) ELSE p

\* The position of the last separator of p, 0 when there is none.
LastSlash(p) ==
    IF \E k \in 1..Len(p) : p[k] = "/"
    THEN CHOOSE k \in 1..Len(p) : p[k] = "/" /\ \A m \in (k + 1)..Len(p) : p[m] # "/"
    ELSE 0

\* The last component of p and the directory that holds it.
LastComponent(p) ==
    LET q == TrimSlashes(p) IN SubSeq(q, LastSlash(q) + 1, Len(q))
ParentDirectory(p) ==
    LET q == TrimSlashes(p) IN
    IF LastSlash(q) <= 1 THEN <<"/">> ELSE SubSeq(q, 1, LastSlash(q) - 1)

\* A name with a non-empty extension: a dot after its first character.
HasExtensionText(name) ==
    name # <<".", ".">> /\ \E k \in 2..Len(name) : name[k] = "."

\* The path of the entry name of directory dir.
InDirectory(dir, name) ==
    IF dir = <<"/">> THEN dir \o name ELSE dir \o <<"/">> \o name

\* {task_id}_{i}.png for an index below 10.
DefaultName(task_id, i) == task_id \o <<"_", Digits[i + 1], ".", "p", "n", "g">>

\* Call c is an accepted download_image call with a non-empty save_path that
\* has resolved its destination.
ResolvedWithSavePath(c) ==
    /\ Resolved(c)
    /\ args[c].save_path.t = "string"
    /\ args[c].save_path.v # <<>>

\* C7: for an absolute save_path whose last component has a non-empty
\* extension, the directory is the parent directory of save_path, artifact 0
\* is saved under the base name of save_path and every artifact i >= 1 as
\* {task_id}_{i}.png in that directory.
C7_FileStylePathSplits ==
    \A c \in CallIds :
        (ResolvedWithSavePath(c) /\ HasExtensionText(LastComponent(args[c].save_path.v)))
        => LET sp == args[c].save_path.v
               d == frame[c].downloadResults
           IN /\ frame[c].targetDir = ParentDirectory(sp)
              /\ \A k \in DOMAIN d :
                   /\ d[k].saved_to =
                        InDirectory(ParentDirectory(sp),
                                    IF k = 1 THEN LastComponent(sp)
                                    ELSE DefaultName(args[c].task_id.v, k - 1))
                   /\ d[k].saved_to \in DOMAIN files
              /\ (sp = S_tmp_out_pic_png /\ args[c].task_id.v = S_t
                  => /\ frame[c].targetDir = S_tmp_out
                     /\ (Len(d) >= 1 => d[1].saved_to = S_tmp_out_pic_png)
                     /\ (Len(d) >= 2 => d[2].saved_to = S_tmp_out \o <<"/">> \o S_t_1_png))

C7_Witness ==
    \E c \in CallIds :
        /\ Succeeded(c)
        /\ args[c].save_path = Str(S_tmp_out_pic_png)
        /\ Len(result[c].downloads) = 2

BareFilename(c) ==
    /\ args[c].save_path.t = "string"
    /\ args[c].save_path.v # <<>>
    /\ \A k \in DOMAIN args[c].save_path.v : args[c].save_path.v[k] # "/"
    /\ HasExtensionText(args[c].save_path.v)

C9_DirectoryStylePathIsTheDirectory ==
    \A c \in CallIds :
        (/\ ResolvedWithSavePath(c)
         /\ \/ ~HasExtensionText(LastComponent(args[c].save_path.v))
            \/ args[c].save_path.v[Len(args[c].save_path.v)] = "/")
        => LET sp == args[c].save_path.v
               d == frame[c].downloadResults
           IN /\ frame[c].customFilename = <<>>
              /\ TrimSlashes(frame[c].targetDir) = TrimSlashes(sp)
              /\ \A k \in DOMAIN d :
                   d[k].saved_to =
                     InDirectory(TrimSlashes(sp), DefaultName(args[c].task_id.v, k - 1))

\* Call c is a generate_image call that passed the argument validation.
Accepted(c) ==
    tool[c] = "generate_image" /\ result[c].kind # "McpError.InvalidParams"

\* C10 as stated: an accepted generate_image call issues exactly one
\* submission request, whose parameters carry the caller's size, seed and
\* steps wherever the caller supplied them, and the defaults ("1024*1024", an
\* integer in [0,1000), 4) only where they are absent.
C10_SuppliedParametersAreCarried ==
    \A c \in CallIds :
        Accepted(c)
        => /\ Len(posted[c]) = 1
           /\ LET g == args[c]
                  q == posted[c][1]
              IN /\ IF g.size.t = "undefined" THEN q.size = S_1024x1024
                    ELSE q.size = g.size.v
                 /\ IF g.seed.t = "undefined"
                    THEN q.seed.t = "number" /\ ~q.seed.nan /\ q.seed.n \in 0..999
                    ELSE q.seed = g.seed
                 /\ IF g.steps.t = "undefined" THEN q.steps = Num(4)
                    ELSE q.steps = g.steps

\* C10, amended: an accepted generate_image call issues exactly one
\* submission request (a rejected one issues none). Its seed is the caller's
\* whenever supplied, else an integer in [0,1000). Its size is the caller's
\* when supplied and not the empty string, else "1024*1024". Its steps is the
\* caller's when supplied and neither 0 nor NaN, else 4.
C10_ParametersCarriedOrDefaulted ==
    \A c \in CallIds :
        tool[c] = "generate_image"
        => IF ~Accepted(c) THEN posted[c] = <<>>
           ELSE /\ Len(posted[c]) = 1
                /\ LET g == args[c]
                       q == posted[c][1]
                   IN /\ IF g.size.t = "undefined" \/ g.size.v = <<>>
                         THEN q.size = S_1024x1024
                         ELSE q.size = g.size.v
                      /\ IF g.seed.t = "undefined"
                         THEN q.seed.t = "number" /\ ~q.seed.nan /\ q.seed.n \in 0..999
                         ELSE q.seed = g.seed
                      /\ IF g.steps.t = "undefined" \/ g.steps.nan \/ g.steps.n = 0
                         THEN q.steps = Num(4)
                         ELSE q.steps = g.steps

C10_Witness ==
    \E c \in CallIds :
        /\ Accepted(c)
        /\ pc[c] = "returned"
        /\ args[c].size = Str(S_720x1280)
        /\ args[c].seed = NoNumber
        /\ args[c].steps = Num(0)
        /\ posted[c] = <<[size |-> S_720x1280, seed |-> Num(999), steps |-> Num(4)]>>


\* The positions of the failed I/O operations in the trace of call c.
FailedOps(c) == {k \in DOMAIN trace[c] : ~trace[c][k].ok}
\* The failures a call can meet after its arguments passed validation.
FetchOrWriteOps == {"status_get", "artifact_get", "write"}

\* C11: a download_image call in which a status request, an artifact request
\* or a file write has failed has ended by returning an error-flagged result,
\* not by raising an exception.
C11_FailuresAreReturnedNotRaised ==
    \A c \in CallIds :
        (/\ tool[c] = "download_image"
         /\ \E k \in FailedOps(c) : trace[c][k].op \in FetchOrWriteOps)
        => /\ pc[c] = "returned"
           /\ result[c].how = "returned"
           /\ result[c].isError


\* Call c is in its download loop, waiting for an artifact or for a write.
Downloading(c) == pc[c] \in {"await_fetch", "await_write"}
\* The step in which the fetch or the write of the current artifact of call c
\* fails and ends the call.
ArtifactFailureStep(c) ==
    /\ Downloading(c)
    /\ pc'[c] \in {"returned", "thrown"}
    /\ result'[c].kind # "success"
\* The I/O of call c that belongs to artifacts: requests and writes.
ArtifactOps(c) ==
    {k \in DOMAIN trace[c] : trace[c][k].op \in {"artifact_get", "write"}}
\* Call c has ended on the failure of an artifact request or of a write.
AbortedOnArtifact(c) ==
    /\ tool[c] = "download_image"
    /\ Ended(c)
    /\ \E k \in FailedOps(c) : k \in ArtifactOps(c)
\* The files recorded for the artifacts before the current one are the same
\* after the step as before it.
EarlierFilesKept(c) ==
    \A j \in DOMAIN frame[c].downloadResults :
        LET saved == Canon(frame[c].downloadResults[j].saved_to)
        IN /\ saved \in DOMAIN files
           /\ saved \in DOMAIN files'
           /\ files'[saved] = files[saved]

\* C12: when the fetch or the write of artifact i fails, the call ends there:
\* the failed operation is the last one of the call, only the artifacts 0..i
\* were requested, and the step leaves every file written for an artifact
\* j < i in place with the content it had.
C12_FailureAbortsAndKeepsEarlierFiles ==
    /\ [](\A c \in CallIds :
            AbortedOnArtifact(c)
            => /\ FailedOps(c) = {Len(trace[c])}
               /\ Cardinality({k \in ArtifactOps(c) : trace[c][k].op = "artifact_get"})
                    = frame[c].i + 1
               /\ Len(frame[c].downloadResults) = frame[c].i)
    /\ [][\A c \in CallIds :
            /\ ArtifactFailureStep(c) => EarlierFilesKept(c)
            /\ AbortedOnArtifact(c) => trace'[c] = trace[c]]_vars


\* The state of call c in the state machine of a retrieval call. The states
\* STATUS_FETCHED, DIR_RESOLVED and DIR_READY are passed without suspension,
\* inside one step; StatusSeen, DirResolved and DirReady tell from the locals
\* and the trace of the call that it went through them.
Phase(c) ==
    IF tool[c] # "download_image" THEN "NOT_CALLED"
    ELSE IF pc[c] = "await_status" THEN "START"
    ELSE IF Downloading(c) THEN "DOWNLOADING"
    ELSE IF result[c].kind = "McpError.InvalidParams" THEN "REJECTED"
    ELSE IF result[c].kind = "incomplete" THEN "INCOMPLETE"
    ELSE IF result[c].kind = "no_artifacts" THEN "NO_ARTIFACTS"
    ELSE IF result[c].kind = "dir_failed" THEN "DIR_CREATE_FAILED"
    ELSE IF result[c].kind = "success" THEN "DONE"
    ELSE IF AbortedOnArtifact(c) THEN "FETCH_OR_WRITE_FAILED"
    ELSE IF \E k \in FailedOps(c) : trace[c][k].op = "status_get"
         THEN "STATUS_FETCH_FAILED"
    ELSE IF result[c].kind = "TypeError" THEN "RESULTS_MISSING"
    ELSE "OTHER"
\* The directory of call c was resolved and looked up.
DirResolved(c) ==
    /\ StatusSeen(c)
    /\ frame[c].targetDir # <<>>
    /\ \E k \in DOMAIN trace[c] : trace[c][k].op = "exists"
\* The directory of call c was found or created.
DirReady(c) ==
    /\ DirResolved(c)
    /\ \A k \in FailedOps(c) : trace[c][k].op # "mkdir"
\* The position of the first operation of kind op in the trace of call c,
\* or 0 when there is none.
FirstOp(c, op) ==
    IF \E k \in DOMAIN trace[c] : trace[c][k].op = op
    THEN CHOOSE k \in DOMAIN trace[c] :
            /\ trace[c][k].op = op
            /\ \A m \in 1..(k - 1) : trace[c][m].op # op
    ELSE 0
\* The terminal states of the graph and the two the graph does not have.
GraphTerminals ==
    {"INCOMPLETE", "NO_ARTIFACTS", "DIR_CREATE_FAILED", "FETCH_OR_WRITE_FAILED", "DONE"}
OtherTerminals == {"STATUS_FETCH_FAILED", "RESULTS_MISSING"}
\* The edges of the graph between the states in which a call can be seen.
GraphEdges ==
    {<<"START", t>> : t \in {"INCOMPLETE", "NO_ARTIFACTS", "DIR_CREATE_FAILED", "DOWNLOADING"}}
    \cup {<<"DOWNLOADING", t>> : t \in {"DOWNLOADING", "FETCH_OR_WRITE_FAILED", "DONE"}}
\* What the state of call c says about the states it went through.
PhaseHistory(c) ==
    /\ Phase(c) \in {"INCOMPLETE", "NO_ARTIFACTS"} => StatusSeen(c) /\ ~DirResolved(c)
    /\ Phase(c) = "DIR_CREATE_FAILED"
        => /\ DirResolved(c)
           /\ trace[c][Len(trace[c])].op = "mkdir"
           /\ FirstOp(c, "artifact_get") = 0
    /\ Phase(c) \in {"DOWNLOADING", "FETCH_OR_WRITE_FAILED", "DONE"}
        => /\ DirReady(c)
           /\ FirstOp(c, "exists") < FirstOp(c, "artifact_get")
           /\ frame[c].i < Len(frame[c].imageUrls) \/ Phase(c) = "DONE"
    /\ Phase(c) = "DONE" => frame[c].i = Len(frame[c].imageUrls)
    /\ Phase(c) \in {"START", "STATUS_FETCH_FAILED"} => OpsOf(c) = {"status_get"}
\* The steps of call c along the edges, with the terminal states final.
PhaseStep(c, edges, terminals) ==
    /\ Phase(c)' # Phase(c) /\ Phase(c) # "NOT_CALLED"
        => <<Phase(c), Phase(c)'>> \in edges
    /\ Phase(c) = "NOT_CALLED" => Phase(c)' \in {"NOT_CALLED", "START", "REJECTED"}
    /\ Phase(c) = "DOWNLOADING" /\ Phase(c)' = "DOWNLOADING"
        => frame[c].i' \in {frame[c].i, frame[c].i + 1}
    /\ Phase(c) = "START" /\ Phase(c)' = "DOWNLOADING" => frame[c].i' = 0
    /\ Phase(c) \in terminals => Phase(c)' = Phase(c) /\ trace'[c] = trace[c]

\* C13 as stated: every download_image call that passed validation moves
\* along the edges START -> {INCOMPLETE, NO_ARTIFACTS, DIR_CREATE_FAILED,
\* DOWNLOADING} and DOWNLOADING -> {DOWNLOADING, FETCH_OR_WRITE_FAILED, DONE},
\* it requests no artifact before the directory is ready, and it ends in one
\* of the five terminal states of the graph and does no I/O afterwards.
C13_CallFollowsTheGraph ==
    /\ [](\A c \in CallIds :
            /\ Phase(c) \in {"NOT_CALLED", "REJECTED", "START", "DOWNLOADING"} \cup GraphTerminals
            /\ PhaseHistory(c))
    /\ [][\A c \in CallIds : PhaseStep(c, GraphEdges, GraphTerminals)]_vars

\* C13, amended: the same graph with two more terminal states entered from
\* START: STATUS_FETCH_FAILED when the status request fails, and
\* RESULTS_MISSING when the status body of a succeeded task has no results and
\* the call ends with a raised exception.
C13_CallFollowsTheGraphWithStatusFailures ==
    /\ [](\A c \in CallIds :
            /\ Phase(c) \in {"NOT_CALLED", "REJECTED", "START", "DOWNLOADING"}
                            \cup GraphTerminals \cup OtherTerminals
            /\ PhaseHistory(c))
    /\ [][\A c \in CallIds :
            PhaseStep(c, GraphEdges \cup {<<"START", t>> : t \in OtherTerminals},
                      GraphTerminals \cup OtherTerminals)]_vars

\* A call ended on a failed status request, and its repetition went through
\* the whole graph and saved at least two artifacts.
C13_Witness ==
    /\ Phase(1) = "STATUS_FETCH_FAILED"
    /\ Phase(2) = "DONE"
    /\ Len(result[2].downloads) >= 2


IsArtifactOp(e) == e.op \in {"artifact_get", "write"}
\* The requests and writes of call c for its artifacts, in the order made.
ArtifactTrace(c) == SelectSeq(trace[c], IsArtifactOp)

\* C14: the artifact I/O of a download_image call is request 0, write 0,
\* request 1, write 1, ... in the order of the remote results: a request is
\* sent only after every earlier request and write has succeeded, so at most
\* the last request is in flight, and the downloads recorded and returned
\* name the URLs in the order of the remote results.
C14_ArtifactsInOrderOneAtATime ==
    \A c \in CallIds :
        tool[c] = "download_image"
        => LET at == ArtifactTrace(c)
               urls == frame[c].statusData.results.urls
               recorded == frame[c].downloadResults
           IN /\ \A k \in DOMAIN at :
                    /\ k % 2 = 1 => /\ at[k].op = "artifact_get"
                                    /\ at[k].arg = urls[(k + 1) \div 2]
                    /\ k % 2 = 0 => /\ at[k].op = "write"
                                    /\ at[k - 1].ok
                    /\ k < Len(at) => at[k].ok
              /\ Len(at) <= 2 * Len(urls)
              /\ pc[c] = "await_fetch"
                    <=> (at # <<>> /\ at[Len(at)].op = "artifact_get" /\ at[Len(at)].ok)
              /\ Len(recorded) <= Len(urls)
              /\ \A j \in DOMAIN recorded : recorded[j].url = urls[j]
              /\ Len(at) \div 2 \in {Len(recorded), Len(recorded) + 1}
              /\ result[c].kind = "success"
                    => /\ result[c].downloads = recorded
                       /\ Len(recorded) = Len(urls)

\* A call has saved two artifacts of different URLs.
C14_Witness ==
    \E c \in CallIds :
        /\ result[c].kind = "success"
        /\ Len(result[c].downloads) = 2
        /\ result[c].downloads[1].url # result[c].downloads[2].url


\* The positions of the status requests in the trace of call c.
StatusOps(c) == {k \in DOMAIN trace[c] : trace[c][k].op = "status_get"}
\* Call c is a download_image call whose arguments passed validation.
PassedValidation(c) ==
    tool[c] = "download_image" /\ result[c].kind # "McpError.InvalidParams"

\* C15 as stated: a download_image call whose status request has answered
\* has sent two status requests for its task_id, one after the other.
C15_TwoStatusFetchesPerCall ==
    \A c \in CallIds :
        StatusSeen(c)
        => /\ StatusOps(c) = {1, 2}
           /\ \A k \in StatusOps(c) : trace[c][k].arg = args[c].task_id.v

\* C15, amended: a download_image call that passed validation sends exactly
\* one status request, for its task_id, as its first I/O operation; a rejected
\* call sends none. Nothing is cached: the request is sent by every call, the
\* repetition of an earlier call included.
C15_OneStatusFetchPerCall ==
    \A c \in CallIds :
        /\ PassedValidation(c)
            => /\ StatusOps(c) = {1}
               /\ trace[c][1].arg = args[c].task_id.v
        /\ ~PassedValidation(c) => trace[c] = <<>>

\* A call and its repetition have both asked for the status, and the task
\* had moved on in between: they saw different status bodies.
C15_Witness ==
    /\ StatusSeen(1) /\ StatusSeen(2)
    /\ args[1] = args[2]
    /\ frame[1].statusData # frame[2].statusData
    /\ frame[2].statusData.task_status = "SUCCEEDED"
    /\ Ended(2)


\* Both calls have ended in success, and call 2 was made while call 1 was
\* suspended in its I/O.
BothSucceededInterleaved ==
    /\ Succeeded(1) /\ Succeeded(2)
    /\ 1 \in frame[2].overlapped
\* The content call c fetched for the canonical path p it reports: that of
\* its last downloads entry saved to p.
FetchedFor(c, p) ==
    LET d == result[c].downloads
        last == CHOOSE k \in DOMAIN d :
                    /\ Canon(d[k].saved_to) = p
                    /\ \A m \in DOMAIN d : Canon(d[m].saved_to) = p => m <= k
    IN frame[c].fetched[last]
\* p is the path call c made of the filename override of its save_path.
OverridePath(c, p) ==
    /\ frame[c].customFilename # <<>>
    /\ p = Canon(SavePath(frame[c].targetDir, frame[c].customFilename))

\* C16 as stated: when two interleaved download_image calls have both ended
\* in success, every path a call reports holds the content this call fetched
\* for it.
C16_NoCallOverwritesTheOther ==
    BothSucceededInterleaved
    => \A c \in CallIds : \A p \in ReportedPaths(c) :
            p \in DOMAIN files /\ files[p] = FetchedFor(c, p)

\* C16, amended: when two interleaved download_image calls have both ended
\* in success, a path reported by one call only holds the content this call
\* fetched for it; a path reported by both holds the content fetched by one
\* of the two, and the calls report a common path only when they resolved the
\* same directory and either have the same task_id or one of them made the
\* path of its filename override.
C16_OnlyCommonPathsAreOverwritten ==
    BothSucceededInterleaved
    => \A c \in CallIds : \A p \in ReportedPaths(c) :
        LET o == CHOOSE d \in CallIds : d # c IN
        /\ p \in DOMAIN files
        /\ p \notin ReportedPaths(o) => files[p] = FetchedFor(c, p)
        /\ p \in ReportedPaths(o)
            => /\ files[p] \in {FetchedFor(c, p), FetchedFor(o, p)}
               /\ Canon(frame[c].targetDir) = Canon(frame[o].targetDir)
               /\ \/ args[c].task_id = args[o].task_id
                  \/ OverridePath(c, p)
                  \/ OverridePath(o, p)

\* Two interleaved calls for different tasks with the same file-style
\* save_path have both ended in success, and the file call 1 reports holds
\* what call 2 fetched, not what call 1 fetched.
C16_Witness ==
    /\ BothSucceededInterleaved
    /\ args[1].task_id # args[2].task_id
    /\ \E p \in ReportedPaths(1) \cap ReportedPaths(2) :
            /\ files[p] # FetchedFor(1, p)
            /\ files[p] = FetchedFor(2, p)


\* C17: two download_image calls with the same task_id and the same
\* non-empty save_path, whatever the base_dir of each (absent, empty, relative
\* or absolute), are both accepted, resolve the same directory and the same
\* filename override, save each artifact to the same path and, when both end
\* in success, return the same downloads.
C17_BaseDirIsIgnoredWithSavePath ==
    \A c, d \in CallIds :
        (/\ tool[c] = "download_image" /\ tool[d] = "download_image"
         /\ args[c].task_id = args[d].task_id
         /\ args[c].save_path = args[d].save_path
         /\ Truthy(args[c].save_path))
        => /\ PassedValidation(c) /\ PassedValidation(d)
           /\ (DirResolved(c) /\ DirResolved(d))
                => /\ frame[c].targetDir = frame[d].targetDir
                   /\ frame[c].customFilename = frame[d].customFilename
                   /\ \A j \in DOMAIN frame[c].downloadResults \cap DOMAIN frame[d].downloadResults :
                        frame[c].downloadResults[j].saved_to
                            = frame[d].downloadResults[j].saved_to
           /\ (Succeeded(c) /\ Succeeded(d)) => result[c].downloads = result[d].downloads

\* A call with a file-style save_path and its repetition with a relative
\* base_dir have both ended in success with the same two paths, none of them
\* under a base directory.
C17_Witness ==
    /\ Succeeded(1) /\ Succeeded(2)
    /\ args[1].save_path = Str(S_tmp_out_pic_png)
    /\ args[1].base_dir = Str(S_home_u_work)
    /\ args[2].base_dir = Str(S_rel)
    /\ frame[2].targetDir = S_tmp_out
    /\ Len(result[2].downloads) = 2
    /\ result[2].downloads[1].saved_to = S_tmp_out_pic_png

====
